---- MODULE Spec2Model ----
(***************************************************************************)
(* A model of package ststore (src/ststore/ststore.go): the three-level    *)
(* sharetoken index t.sts, its mirror t.m on disk, and the operations New, *)
(* Add, Del, Filter and SettlingAt.  Every operation runs under t.mu, so   *)
(* each one is one atomic action here.                                     *)
(***************************************************************************)
EXTENDS Integers, Sequences, FiniteSets, TLC

(* ------------------------------ bounds -------------------------------- *)

\* Timestamps handed to SettlingAt range over 0..MaxTime.
MaxTime == 2

\* At most MaxFailures RecordStore calls fail in one run.
MaxFailures == 1

(* ------------------------------ tokens -------------------------------- *)

\* The sharetokens of the model.  A token carries the three keys the key
\* function derives from it and its settlement window [open, close).
\* st1 and st2 share (k1, k3) under different k2; st1 and st5 are different
\* tokens deriving the same triple.
st1 == [id |-> 1, k1 |-> "a", k2 |-> "x", k3 |-> "p", open |-> 0, close |-> 1]
st2 == [id |-> 2, k1 |-> "a", k2 |-> "y", k3 |-> "p", open |-> 0, close |-> 3]
st3 == [id |-> 3, k1 |-> "a", k2 |-> "y", k3 |-> "q", open |-> 1, close |-> 2]
st4 == [id |-> 4, k1 |-> "b", k2 |-> "x", k3 |-> "p", open |-> 1, close |-> 3]
st5 == [id |-> 5, k1 |-> "a", k2 |-> "x", k3 |-> "p", open |-> 2, close |-> 3]

Tokens == {st1, st2, st3, st4, st5}

\* The key values, in the lexical order filepath.Walk visits them.
K1Seq == <<"a", "b">>
K3Seq == <<"p", "q">>
K1 == {"a", "b"}
K2 == {"x", "y"}
K3 == {"p", "q"}

\* t.keyf: the pluggable, deterministic key function.
keyf(st) == <<st.k1, st.k2, st.k3>>

\* sharetoken.T.IsSettlingAt: the token's own settlement predicate.
IsSettlingAt(st, utime) == st.open <= utime /\ utime < st.close

(* ------------------------------ errors -------------------------------- *)

NoError == "nil"
DuplicateSTError == "duplicate sharetoken"
\* An error of the RecordStore (fsdir), handed on verbatim.
IOError == "io error"

(* ------------------------------- maps --------------------------------- *)

EmptyMap == [x \in {} |-> 0]
Put(f, k, v) == [x \in DOMAIN f \cup {k} |-> IF x = k THEN v ELSE f[x]]
Remove(f, k) == [x \in DOMAIN f \ {k} |-> f[x]]

\* st3map lookups; a missing level reads as a nil map, a missing leaf as nil.
Has1(s, k1) == k1 \in DOMAIN s
Has2(s, k1, k2) == Has1(s, k1) /\ k2 \in DOMAIN s[k1]
Has3(s, k1, k2, k3) == Has2(s, k1, k2) /\ k3 \in DOMAIN s[k1][k2]

(* ------------------------ the RecordStore t.m -------------------------- *)

\* fsdir.T: records addressed by (group, name), and the groups themselves.
EmptyDir == [files |-> EmptyMap, dirs |-> {}]

\* t.m.Set(st, k1, k3+".json")
mSet(mm, st, k1, k3) ==
    [files |-> Put(mm.files, <<k1, k3>>, st), dirs |-> mm.dirs \cup {k1}]

\* t.m.Del(k1, k3+".json")
mDelFile(mm, k1, k3) == [files |-> Remove(mm.files, <<k1, k3>>), dirs |-> mm.dirs]

\* t.m.Del(k1): the whole group
mDelDir(mm, k1) ==
    [files |-> [p \in {q \in DOMAIN mm.files : q[1] # k1} |-> mm.files[p]],
     dirs |-> mm.dirs \ {k1}]

\* One RecordStore call as the last operation made it.
IO(call, path, ok) == [call |-> call, path |-> path, ok |-> ok]

(* --------------------------- Add and Del ------------------------------ *)

\* The outcome of an operation: the index, the RecordStore, the error
\* returned and the RecordStore calls made, in order.
Outcome(s, mm, e, calls) == [sts |-> s, m |-> mm, err |-> e, io |-> calls]

\* Mutants of AddResult: an Add that overwrites an occupied leaf, one that
\* writes the record before it looks at the leaf, and one that takes the
\* token out of the index again when the write fails.
AddResult_Overwrite(s, mm, st, setOk) ==
    LET k1 == keyf(st)[1]
        k2 == keyf(st)[2]
        k3 == keyf(st)[3]
        s1 == IF Has1(s, k1) THEN s ELSE Put(s, k1, EmptyMap)
        s2 == IF Has2(s1, k1, k2) THEN s1
              ELSE Put(s1, k1, Put(s1[k1], k2, EmptyMap))
        s3 == Put(s2, k1, Put(s2[k1], k2, Put(s2[k1][k2], k3, st)))
    IN  IF setOk
        THEN Outcome(s3, mSet(mm, st, k1, k3), NoError,
                     <<IO("Set", <<k1, k3>>, TRUE)>>)
        ELSE Outcome(s3, mm, IOError, <<IO("Set", <<k1, k3>>, FALSE)>>)

AddResult_SetBeforeCheck(s, mm, st, setOk) ==
    LET k1 == keyf(st)[1]
        k2 == keyf(st)[2]
        k3 == keyf(st)[3]
        s1 == IF Has1(s, k1) THEN s ELSE Put(s, k1, EmptyMap)
        s2 == IF Has2(s1, k1, k2) THEN s1
              ELSE Put(s1, k1, Put(s1[k1], k2, EmptyMap))
        s3 == Put(s2, k1, Put(s2[k1], k2, Put(s2[k1][k2], k3, st)))
        m1 == IF setOk THEN mSet(mm, st, k1, k3) ELSE mm
        io1 == <<IO("Set", <<k1, k3>>, setOk)>>
    IN  IF Has3(s2, k1, k2, k3)
        THEN Outcome(s2, m1, DuplicateSTError, io1)
        ELSE Outcome(s3, m1, IF setOk THEN NoError ELSE IOError, io1)

AddResult_Rollback(s, mm, st, setOk) ==
    LET k1 == keyf(st)[1]
        k2 == keyf(st)[2]
        k3 == keyf(st)[3]
        s1 == IF Has1(s, k1) THEN s ELSE Put(s, k1, EmptyMap)
        s2 == IF Has2(s1, k1, k2) THEN s1
              ELSE Put(s1, k1, Put(s1[k1], k2, EmptyMap))
        s3 == Put(s2, k1, Put(s2[k1], k2, Put(s2[k1][k2], k3, st)))
    IN  IF Has3(s2, k1, k2, k3)
        THEN Outcome(s2, mm, DuplicateSTError, <<>>)
        ELSE IF setOk
             THEN Outcome(s3, mSet(mm, st, k1, k3), NoError,
                          <<IO("Set", <<k1, k3>>, TRUE)>>)
             ELSE Outcome(s, mm, IOError, <<IO("Set", <<k1, k3>>, FALSE)>>)

\* T.Add with the lock held; setOk tells whether t.m.Set succeeds.
AddResult(s, mm, st, setOk) ==
    LET k1 == keyf(st)[1]
        k2 == keyf(st)[2]
        k3 == keyf(st)[3]
        s1 == IF Has1(s, k1) THEN s ELSE Put(s, k1, EmptyMap)
        s2 == IF Has2(s1, k1, k2) THEN s1
              ELSE Put(s1, k1, Put(s1[k1], k2, EmptyMap))
        s3 == Put(s2, k1, Put(s2[k1], k2, Put(s2[k1][k2], k3, st)))
    IN  IF Has3(s2, k1, k2, k3)
        THEN Outcome(s2, mm, DuplicateSTError, <<>>)
        ELSE IF setOk
             THEN Outcome(s3, mSet(mm, st, k1, k3), NoError,
                          <<IO("Set", <<k1, k3>>, TRUE)>>)
             ELSE Outcome(s3, mm, IOError, <<IO("Set", <<k1, k3>>, FALSE)>>)

\* Mutant of DelResult: a Del that deletes the record at the token's path
\* whether or not the index holds the token.
DelResult_AlwaysDelFile(s, mm, st, fileOk, dirOk) ==
    LET k1 == keyf(st)[1]
        k2 == keyf(st)[2]
        k3 == keyf(st)[3]
        sa == IF Has3(s, k1, k2, k3)
              THEN Put(s, k1, Put(s[k1], k2, Remove(s[k1][k2], k3)))
              ELSE s
        sb == IF Has2(sa, k1, k2) /\ DOMAIN sa[k1][k2] = {}
              THEN Put(sa, k1, Remove(sa[k1], k2))
              ELSE sa
        m1 == mDelFile(mm, k1, k3)
        io1 == <<IO("Del", <<k1, k3>>, fileOk)>>
    IN  IF ~fileOk
        THEN Outcome(sa, mm, IOError, io1)
        ELSE IF ~Has1(sb, k1) \/ DOMAIN sb[k1] # {}
             THEN Outcome(sb, m1, NoError, io1)
             ELSE IF dirOk
                  THEN Outcome(Remove(sb, k1), mDelDir(m1, k1), NoError,
                               io1 \o <<IO("Del", <<k1>>, TRUE)>>)
                  ELSE Outcome(Remove(sb, k1), m1, IOError,
                               io1 \o <<IO("Del", <<k1>>, FALSE)>>)

\* Mutant of DelResult: a Del that still prunes the emptied levels when the
\* record's deletion fails.
DelResult_PruneOnFailure(s, mm, st, fileOk, dirOk) ==
    LET k1 == keyf(st)[1]
        k2 == keyf(st)[2]
        k3 == keyf(st)[3]
        s1 == Put(s, k1, Put(s[k1], k2, Remove(s[k1][k2], k3)))
        s2 == IF DOMAIN s1[k1][k2] = {} THEN Put(s1, k1, Remove(s1[k1], k2))
              ELSE s1
        s3 == Remove(s2, k1)
        m1 == mDelFile(mm, k1, k3)
        io1 == <<IO("Del", <<k1, k3>>, fileOk)>>
    IN  IF ~Has3(s, k1, k2, k3)
        THEN Outcome(s, mm, NoError, <<>>)
        ELSE IF ~fileOk
             THEN Outcome(IF DOMAIN s2[k1] # {} THEN s2 ELSE s3, mm, IOError, io1)
             ELSE IF DOMAIN s2[k1] # {}
                  THEN Outcome(s2, m1, NoError, io1)
                  ELSE IF dirOk
                       THEN Outcome(s3, mDelDir(m1, k1), NoError,
                                    io1 \o <<IO("Del", <<k1>>, TRUE)>>)
                       ELSE Outcome(s3, m1, IOError,
                                    io1 \o <<IO("Del", <<k1>>, FALSE)>>)

\* T.Del with the lock held; fileOk and dirOk tell whether the record's
\* and the group's deletion succeed.
DelResult(s, mm, st, fileOk, dirOk) ==
    LET k1 == keyf(st)[1]
        k2 == keyf(st)[2]
        k3 == keyf(st)[3]
        s1 == Put(s, k1, Put(s[k1], k2, Remove(s[k1][k2], k3)))
        s2 == IF DOMAIN s1[k1][k2] = {} THEN Put(s1, k1, Remove(s1[k1], k2))
              ELSE s1
        s3 == Remove(s2, k1)
        m1 == mDelFile(mm, k1, k3)
        io1 == <<IO("Del", <<k1, k3>>, fileOk)>>
    IN  IF ~Has3(s, k1, k2, k3)
        THEN Outcome(s, mm, NoError, <<>>)
        ELSE IF ~fileOk
             THEN Outcome(s1, mm, IOError, io1)
             ELSE IF DOMAIN s2[k1] # {}
                  THEN Outcome(s2, m1, NoError, io1)
                  ELSE IF dirOk
                       THEN Outcome(s3, mDelDir(m1, k1), NoError,
                                    io1 \o <<IO("Del", <<k1>>, TRUE)>>)
                       ELSE Outcome(s3, m1, IOError,
                                    io1 \o <<IO("Del", <<k1>>, FALSE)>>)

(* ----------------------- Filter and SettlingAt ------------------------- *)

\* The leaves, as <<k1, k2, k3>>, under one (k1, k2) and under one k1; a
\* missing level is a nil map, which ranges over nothing.
Leaves2(s, k1, k2) ==
    IF Has2(s, k1, k2) THEN {<<k1, k2, k3>> : k3 \in DOMAIN s[k1][k2]} ELSE {}
Leaves1(s, k1) ==
    IF Has1(s, k1) THEN UNION {Leaves2(s, k1, k2) : k2 \in DOMAIN s[k1]} ELSE {}

\* Mutant of Visited: the case "for all k1, some k2" ranges over every
\* second-level map.
Visited_IgnoresK2(s, k1, k2) ==
    CASE k1 = "" -> UNION {Leaves1(s, a) : a \in DOMAIN s}
      [] k1 # "" /\ k2 = "" -> Leaves1(s, k1)
      [] OTHER -> Leaves2(s, k1, k2)

\* The leaves that Filter's loops visit, by the case of its switch.
Visited(s, k1, k2) ==
    CASE k1 = "" /\ k2 = "" -> UNION {Leaves1(s, a) : a \in DOMAIN s}
      [] k1 = "" /\ k2 # "" -> UNION {Leaves2(s, a, k2) : a \in DOMAIN s}
      [] k1 # "" /\ k2 = "" -> Leaves1(s, k1)
      [] OTHER -> Leaves2(s, k1, k2)

\* T.Filter: the returned slice as a bag, token |-> number of times appended.
Filter(s, k1, k2) ==
    LET v == Visited(s, k1, k2)
    IN  [st \in {s[p[1]][p[2]][p[3]] : p \in v} |->
            Cardinality({p \in v : s[p[1]][p[2]][p[3]] = st})]

\* The entries of a slice given as a bag, one per occurrence.
Entries(bag) == UNION {{<<st, i>> : i \in 1..bag[st]} : st \in DOMAIN bag}

\* r[rpk]++ on a map[string]int
Incr(r, k) == Put(r, k, (IF k \in DOMAIN r THEN r[k] ELSE 0) + 1)

RECURSIVE CountSettling(_, _, _, _)
CountSettling(r, es, rpk, utime) ==
    IF es = {} THEN r
    ELSE LET e == CHOOSE x \in es : TRUE
         IN  CountSettling(IF IsSettlingAt(e[1], utime) THEN Incr(r, rpk) ELSE r,
                           es \ {e}, rpk, utime)

\* Mutant of SettlingAt: the map starts with rpk counted zero times.
SettlingAt_ZeroEntry(s, rpk, utime) ==
    CountSettling(Put(EmptyMap, rpk, 0), Entries(Filter(s, "", rpk)), rpk, utime)

\* Mutant of SettlingAt: the tokens of every second-level key are counted.
SettlingAt_CountsEveryK2(s, rpk, utime) ==
    CountSettling(EmptyMap, Entries(Filter(s, "", "")), rpk, utime)

\* T.SettlingAt
SettlingAt(s, rpk, utime) ==
    CountSettling(EmptyMap, Entries(Filter(s, "", rpk)), rpk, utime)

(* -------------------------------- New --------------------------------- *)

\* What goes wrong during a New: nothing, fsdir.New itself, the Get of the
\* record at a path, or the Set inside the Add of the record read at a path.
Paths == K1 \X K3
NoFail == <<"none">>
Fails == {NoFail, <<"new">>} \cup ({"get", "set"} \X Paths)

\* The names filepath.Walk lists, in lexical order.
DirSeq(mm) == SelectSeq(K1Seq, LAMBDA k : k \in mm.dirs)
FileSeq(mm, k1) == SelectSeq(K3Seq, LAMBDA k : <<k1, k>> \in DOMAIN mm.files)

\* The walk function on the record k1/k3.json: Get, then Add; an error
\* already returned ends the walk.
RECURSIVE WalkFiles(_, _, _, _)
WalkFiles(acc, k1, fs, fail) ==
    IF fs = <<>> \/ acc.err # NoError THEN acc
    ELSE LET path == <<k1, Head(fs)>>
             r == AddResult(acc.sts, acc.m, acc.m.files[path],
                            fail # <<"set", path>>)
         IN  IF fail = <<"get", path>>
             THEN Outcome(acc.sts, acc.m, IOError,
                          acc.io \o <<IO("Get", path, FALSE)>>)
             ELSE WalkFiles(Outcome(r.sts, r.m, r.err,
                                    acc.io \o <<IO("Get", path, TRUE)>> \o r.io),
                            k1, Tail(fs), fail)

\* The walk over the groups listed at the root; a group's records are listed
\* when the walk enters it.
RECURSIVE WalkDirs(_, _, _)
WalkDirs(acc, ds, fail) ==
    IF ds = <<>> \/ acc.err # NoError THEN acc
    ELSE WalkDirs(WalkFiles(acc, Head(ds), FileSeq(acc.m, Head(ds)), fail),
                  Tail(ds), fail)

\* New: an empty index, then the walk; t is returned with err in every case.
NewResult(mm, fail) ==
    IF fail = <<"new">> THEN Outcome(EmptyMap, mm, IOError, <<>>)
    ELSE WalkDirs(Outcome(EmptyMap, mm, NoError, <<>>), DirSeq(mm), fail)

(* ------------------------------- state -------------------------------- *)

\* The values of the *T a caller holds: none, a store over its directory,
\* and the store New returns when fsdir.New failed, which has no directory.
NilT == "nil"
TheT == "T"
NoDirT == "T without m"

VARIABLES
    t,      \* the *T the last New returned: NilT before any New
    sts,    \* t.sts
    m,      \* t.m, the RecordStore under the store's directory
    op,     \* the last operation called
    arg,    \* its arguments
    ret,    \* its result: Filter's slice (a bag), SettlingAt's map
    err,    \* the error it returned
    io,     \* the RecordStore calls it made, in order
    live,   \* history: the tokens added and not deleted since
    hist,   \* history: "adds", "clean" or "other" (see Demote)
    nfails  \* history: the number of RecordStore calls that failed

vars == <<t, sts, m, op, arg, ret, err, io, live, hist, nfails>>

\* The goroutines calling into one store at the same time.
NProcs == 2
Procs == 1..NProcs

VARIABLES
    mu,     \* t.mu, the sync.RWMutex
    pc,     \* each goroutine's position in the method it is running
    call    \* each goroutine's frame: the method, its arguments (st for Add
            \* and Del, k1 and k2 for Filter, k2 as rpk and utime for
            \* SettlingAt), err, Filter's r and SettlingAt's r (n)

cvars == <<mu, pc, call>>
mvars == <<vars, cvars>>

\* t.mu with nobody in it.  w is the goroutine inside Lock or holding the
\* write lock (0: none), readers those holding the read lock, blocked those
\* RLock made wait because a writer was there.
FreeMu == [w |-> 0, readers |-> {}, blocked |-> {}]

\* The frame of a goroutine that is running no method.
NoCall ==
    [op |-> "none", st |-> [id |-> 0], k1 |-> "", k2 |-> "", utime |-> 0,
     err |-> NoError, r |-> EmptyMap, n |-> EmptyMap]

\* No goroutine is inside a method.
Quiet ==
    /\ mu = FreeMu
    /\ pc = [p \in Procs |-> "idle"]
    /\ call = [p \in Procs |-> NoCall]

\* Whether a RecordStore call failed among those made.
Failed(calls, e) == e = IOError \/ \E i \in DOMAIN calls : ~calls[i].ok

\* The outcomes of a RecordStore call that are still within the bound.
Oks == IF nfails < MaxFailures THEN BOOLEAN ELSE {TRUE}

\* The tokens at the leaves of an index.
Stored(s) == {s[p[1]][p[2]][p[3]] : p \in Visited(s, "", "")}

\* hist is "other" when the directory did not start empty.  Otherwise it
\* is "adds" while every call so far was the first New, an Add that
\* succeeded or a read; "clean" while no RecordStore call has failed;
\* "failed" after one has.
Demote(h, e, calls, pureAdd) ==
    IF h = "other" THEN "other"
    ELSE IF h = "failed" \/ Failed(calls, e) THEN "failed"
    ELSE IF h = "adds" /\ pureAdd /\ e = NoError THEN "adds" ELSE "clean"

\* The directories a store may be opened on: an empty one, and one in which
\* a record was copied under a second name.
InitDisks ==
    {EmptyDir,
     [files |-> [p \in {<<"a", "p">>, <<"a", "q">>} |-> st1], dirs |-> {"a"}]}

Init ==
    /\ t = NilT
    /\ sts = EmptyMap
    /\ m \in InitDisks
    /\ op = "none"
    /\ arg = <<>>
    /\ ret = <<>>
    /\ err = NoError
    /\ io = <<>>
    /\ live = {}
    /\ hist = (IF m = EmptyDir THEN "adds" ELSE "other")
    /\ nfails = 0
    /\ Quiet

(* ------------------------------ actions ------------------------------- *)

Apply(r) ==
    /\ sts' = r.sts
    /\ m' = r.m
    /\ err' = r.err
    /\ io' = r.io
    /\ nfails' = IF Failed(r.io, r.err) THEN nfails + 1 ELSE nfails

New ==
    \E fail \in (IF nfails < MaxFailures THEN Fails ELSE {NoFail}) :
        LET r == NewResult(m, fail)
        IN  /\ Apply(r)
            /\ t' = (IF fail = <<"new">> THEN NoDirT ELSE TheT)
            /\ op' = "New"
            /\ arg' = <<>>
            /\ ret' = <<>>
            /\ live' = Stored(r.sts)
            /\ hist' = Demote(hist, r.err, r.io, t = NilT)
            /\ UNCHANGED cvars

Add ==
    \E st \in Tokens, setOk \in Oks :
        LET r == AddResult(sts, m, st, setOk)
        IN  /\ t = TheT
            /\ Apply(r)
            /\ op' = "Add"
            /\ arg' = <<st>>
            /\ live' = IF \E u \in live : keyf(u) = keyf(st) THEN live
                       ELSE live \cup {st}
            /\ hist' = Demote(hist, r.err, r.io, TRUE)
            /\ ret' = <<>>
            /\ UNCHANGED <<t, cvars>>

Del ==
    \E st \in Tokens, fileOk \in Oks, dirOk \in Oks :
        LET r == DelResult(sts, m, st, fileOk, dirOk)
        IN  /\ t = TheT
            /\ Apply(r)
            /\ op' = "Del"
            /\ arg' = <<st>>
            /\ live' = {u \in live : keyf(u) # keyf(st)}
            /\ hist' = Demote(hist, r.err, r.io, FALSE)
            /\ ret' = <<>>
            /\ UNCHANGED <<t, cvars>>

CallFilter ==
    \E k1 \in K1 \cup {""}, k2 \in K2 \cup {""} :
        /\ t = TheT
        /\ op' = "Filter"
        /\ arg' = <<k1, k2>>
        /\ ret' = Filter(sts, k1, k2)
        /\ err' = NoError
        /\ io' = <<>>
        /\ UNCHANGED <<t, sts, m, live, hist, nfails, cvars>>

CallSettlingAt ==
    \E rpk \in K2 \cup {""}, utime \in 0..MaxTime :
        /\ t = TheT
        /\ op' = "SettlingAt"
        /\ arg' = <<rpk, utime>>
        /\ ret' = SettlingAt(sts, rpk, utime)
        /\ err' = NoError
        /\ io' = <<>>
        /\ UNCHANGED <<t, sts, m, live, hist, nfails, cvars>>

Next == New \/ Add \/ Del \/ CallFilter \/ CallSettlingAt

\* One caller at a time: every method runs from its first line to its return
\* with no other goroutine in the store.
Spec == Init /\ [][Next]_mvars

(* ------------------- the store under concurrent callers ---------------- *)

\* What the goroutines call: Add of tokens that share a triple (st1, st5) or
\* a first-level key (st1, st2), Del of the shared triple (which empties the
\* first level or not, as st2 is stored or not), Filter over the whole
\* index, SettlingAt.
MuTokens == {st1, st2, st5}
MuCalls ==
    {[NoCall EXCEPT !.op = "Add", !.st = st] : st \in MuTokens}
    \cup {[NoCall EXCEPT !.op = "Del", !.st = st1]}
    \cup {[NoCall EXCEPT !.op = "Filter"],
          [NoCall EXCEPT !.op = "SettlingAt", !.k2 = "x"]}

\* The first position of each method; SettlingAt(rpk, utime) goes straight
\* into Filter("", rpk).
Entry(o) ==
    CASE o = "Add" -> "AddLock"
      [] o = "Del" -> "DelLock"
      [] o = "Filter" -> "FilterRLock"
      [] o = "SettlingAt" -> "FilterRLock"

\* The positions between Lock's return and Unlock, and between RLock's
\* return and RUnlock.
WriteSection ==
    {"AddLevels", "AddCheck", "AddInsert", "AddSet", "AddUnlock",
     "DelCheck", "DelLeaf", "DelFile", "DelPrune2", "DelPrune1", "DelDir",
     "DelUnlock"}
ReadSection == {"FilterRead", "FilterRUnlock"}

\* The store the goroutines share: opened on an empty directory.
InitMu ==
    /\ t = TheT
    /\ sts = EmptyMap
    /\ m = EmptyDir
    /\ op = "none"
    /\ arg = <<>>
    /\ ret = <<>>
    /\ err = NoError
    /\ io = <<>>
    /\ live = {}
    /\ hist = "adds"
    /\ nfails = 0
    /\ Quiet

\* What no step of a goroutine touches: the labels of the last call made
\* with the store to oneself.
Labels == <<t, op, arg, ret, err, live, hist>>

Goto(p, l) == pc' = [pc EXCEPT ![p] = l]
SetErr(p, e) == call' = [call EXCEPT ![p].err = e]

\* A step that makes no RecordStore call.
NoIO == io' = <<>> /\ UNCHANGED <<m, nfails>>

\* A step that makes the RecordStore call c on path, giving mm when it
\* succeeds; its error is the method's err.
DoIO(p, c, path, mm) ==
    \E ok \in Oks :
        /\ io' = <<IO(c, path, ok)>>
        /\ m' = (IF ok THEN mm ELSE m)
        /\ nfails' = (IF ok THEN nfails ELSE nfails + 1)
        /\ SetErr(p, IF ok THEN NoError ELSE IOError)

Invoke(p) ==
    /\ pc[p] = "idle"
    /\ \E c \in MuCalls :
        /\ call' = [call EXCEPT ![p] = c]
        /\ Goto(p, Entry(c.op))
    /\ NoIO
    /\ UNCHANGED <<mu, sts, Labels>>

\* Mutant of Lock: a Lock that does not wait for the writer inside.
Lock_NoWait(p) ==
    /\ pc[p] \in {"AddLock", "DelLock"}
    /\ mu' = [mu EXCEPT !.w = p]
    /\ Goto(p, IF pc[p] = "AddLock" THEN "AddWait" ELSE "DelWait")
    /\ NoIO
    /\ UNCHANGED <<call, sts, Labels>>

\* t.mu.Lock(), first half: one goroutine at a time gets past the other
\* writers, and from then on RLock makes new readers wait.
Lock(p) ==
    /\ pc[p] \in {"AddLock", "DelLock"}
    /\ mu.w = 0
    /\ mu' = [mu EXCEPT !.w = p]
    /\ Goto(p, IF pc[p] = "AddLock" THEN "AddWait" ELSE "DelWait")
    /\ NoIO
    /\ UNCHANGED <<call, sts, Labels>>

\* t.mu.Lock(), second half: returns when the readers inside have left.
LockWait(p) ==
    /\ pc[p] \in {"AddWait", "DelWait"}
    /\ mu.w = p
    /\ mu.readers = {}
    /\ Goto(p, IF pc[p] = "AddWait" THEN "AddLevels" ELSE "DelCheck")
    /\ NoIO
    /\ UNCHANGED <<mu, call, sts, Labels>>

\* Mutant of Unlock: a method that returns an error without the Unlock.
Unlock_NotOnError(p) ==
    /\ pc[p] \in {"AddUnlock", "DelUnlock"}
    /\ mu' = (IF call[p].err = NoError
              THEN [w |-> 0, readers |-> mu.blocked, blocked |-> {}]
              ELSE mu)
    /\ Goto(p, "idle")
    /\ call' = [call EXCEPT ![p] = NoCall]
    /\ NoIO
    /\ UNCHANGED <<sts, Labels>>

\* The deferred t.mu.Unlock() and the return: the readers RLock made wait
\* get the read lock.
Unlock(p) ==
    /\ pc[p] \in {"AddUnlock", "DelUnlock"}
    /\ mu' = [w |-> 0, readers |-> mu.blocked, blocked |-> {}]
    /\ Goto(p, "idle")
    /\ call' = [call EXCEPT ![p] = NoCall]
    /\ NoIO
    /\ UNCHANGED <<sts, Labels>>

\* Add: the two upper levels are created where missing.
AddLevels(p) ==
    LET st == call[p].st
        k1 == keyf(st)[1]
        k2 == keyf(st)[2]
        s1 == IF Has1(sts, k1) THEN sts ELSE Put(sts, k1, EmptyMap)
        s2 == IF Has2(s1, k1, k2) THEN s1
              ELSE Put(s1, k1, Put(s1[k1], k2, EmptyMap))
    IN  /\ pc[p] = "AddLevels"
        /\ sts' = s2
        /\ Goto(p, "AddCheck")
        /\ NoIO
        /\ UNCHANGED <<mu, call, Labels>>

\* Add: the leaf is read; an occupied one ends the call.
AddCheck(p) ==
    LET st == call[p].st
    IN  /\ pc[p] = "AddCheck"
        /\ IF Has3(sts, keyf(st)[1], keyf(st)[2], keyf(st)[3])
           THEN SetErr(p, DuplicateSTError) /\ Goto(p, "AddUnlock")
           ELSE UNCHANGED call /\ Goto(p, "AddInsert")
        /\ NoIO
        /\ UNCHANGED <<mu, sts, Labels>>

\* Mutant of AddInsert: an Add that gives the lock back once the index is
\* changed, before it writes the record.
AddInsert_Unlocks(p) ==
    LET st == call[p].st
        k1 == keyf(st)[1]
        k2 == keyf(st)[2]
        k3 == keyf(st)[3]
    IN  /\ pc[p] = "AddInsert"
        /\ sts' = Put(sts, k1, Put(sts[k1], k2, Put(sts[k1][k2], k3, st)))
        /\ mu' = [w |-> 0, readers |-> mu.blocked, blocked |-> {}]
        /\ Goto(p, "AddSet")
        /\ NoIO
        /\ UNCHANGED <<call, Labels>>

\* Add: the token is stored at the leaf.
AddInsert(p) ==
    LET st == call[p].st
        k1 == keyf(st)[1]
        k2 == keyf(st)[2]
        k3 == keyf(st)[3]
    IN  /\ pc[p] = "AddInsert"
        /\ sts' = Put(sts, k1, Put(sts[k1], k2, Put(sts[k1][k2], k3, st)))
        /\ Goto(p, "AddSet")
        /\ NoIO
        /\ UNCHANGED <<mu, call, Labels>>

\* Add: the record is written.
AddSet(p) ==
    LET st == call[p].st
        k1 == keyf(st)[1]
        k3 == keyf(st)[3]
    IN  /\ pc[p] = "AddSet"
        /\ DoIO(p, "Set", <<k1, k3>>, mSet(m, st, k1, k3))
        /\ Goto(p, "AddUnlock")
        /\ UNCHANGED <<mu, sts, Labels>>

\* Del: a token that is not stored ends the call.
DelCheck(p) ==
    LET st == call[p].st
    IN  /\ pc[p] = "DelCheck"
        /\ Goto(p, IF Has3(sts, keyf(st)[1], keyf(st)[2], keyf(st)[3])
                    THEN "DelLeaf" ELSE "DelUnlock")
        /\ NoIO
        /\ UNCHANGED <<mu, call, sts, Labels>>

\* Del: the leaf is deleted.
DelLeaf(p) ==
    LET st == call[p].st
        k1 == keyf(st)[1]
        k2 == keyf(st)[2]
        k3 == keyf(st)[3]
    IN  /\ pc[p] = "DelLeaf"
        /\ sts' = Put(sts, k1, Put(sts[k1], k2, Remove(sts[k1][k2], k3)))
        /\ Goto(p, "DelFile")
        /\ NoIO
        /\ UNCHANGED <<mu, call, Labels>>

\* Del: the record is deleted; an error ends the call.
DelFile(p) ==
    LET st == call[p].st
        k1 == keyf(st)[1]
        k3 == keyf(st)[3]
    IN  /\ pc[p] = "DelFile"
        /\ DoIO(p, "Del", <<k1, k3>>, mDelFile(m, k1, k3))
        /\ Goto(p, IF call'[p].err = NoError THEN "DelPrune2" ELSE "DelUnlock")
        /\ UNCHANGED <<mu, sts, Labels>>

\* Del: the second level is deleted when it is empty.
DelPrune2(p) ==
    LET st == call[p].st
        k1 == keyf(st)[1]
        k2 == keyf(st)[2]
    IN  /\ pc[p] = "DelPrune2"
        /\ sts' = (IF DOMAIN sts[k1][k2] = {}
                   THEN Put(sts, k1, Remove(sts[k1], k2)) ELSE sts)
        /\ Goto(p, "DelPrune1")
        /\ NoIO
        /\ UNCHANGED <<mu, call, Labels>>

\* Del: the first level is deleted when it is empty.
DelPrune1(p) ==
    LET st == call[p].st
        k1 == keyf(st)[1]
    IN  /\ pc[p] = "DelPrune1"
        /\ IF DOMAIN sts[k1] = {}
           THEN sts' = Remove(sts, k1) /\ Goto(p, "DelDir")
           ELSE UNCHANGED sts /\ Goto(p, "DelUnlock")
        /\ NoIO
        /\ UNCHANGED <<mu, call, Labels>>

\* Del: the group of the deleted first level is deleted.
DelDir(p) ==
    LET k1 == keyf(call[p].st)[1]
    IN  /\ pc[p] = "DelDir"
        /\ DoIO(p, "Del", <<k1>>, mDelDir(m, k1))
        /\ Goto(p, "DelUnlock")
        /\ UNCHANGED <<mu, sts, Labels>>

\* Mutant of FilterRLock: an RLock that lets a reader in beside a writer.
FilterRLock_IgnoresWriter(p) ==
    /\ pc[p] = "FilterRLock"
    /\ mu' = [mu EXCEPT !.readers = @ \cup {p}]
    /\ Goto(p, "FilterRead")
    /\ NoIO
    /\ UNCHANGED <<call, sts, Labels>>

\* t.mu.RLock(): returns at once unless a writer is in Lock or holds the
\* lock, and waits otherwise.
FilterRLock(p) ==
    /\ pc[p] = "FilterRLock"
    /\ IF mu.w = 0
       THEN /\ mu' = [mu EXCEPT !.readers = @ \cup {p}]
            /\ Goto(p, "FilterRead")
       ELSE /\ mu' = [mu EXCEPT !.blocked = @ \cup {p}]
            /\ Goto(p, "FilterBlocked")
    /\ NoIO
    /\ UNCHANGED <<call, sts, Labels>>

\* t.mu.RLock() returns to a reader the writer's Unlock let in.
FilterWake(p) ==
    /\ pc[p] = "FilterBlocked"
    /\ p \in mu.readers
    /\ Goto(p, "FilterRead")
    /\ NoIO
    /\ UNCHANGED <<mu, call, sts, Labels>>

\* Filter: the switch over the keys fills r.
FilterRead(p) ==
    /\ pc[p] = "FilterRead"
    /\ call' = [call EXCEPT ![p].r = Filter(sts, call[p].k1, call[p].k2)]
    /\ Goto(p, "FilterRUnlock")
    /\ NoIO
    /\ UNCHANGED <<mu, sts, Labels>>

\* The deferred t.mu.RUnlock() and Filter's return, to its caller or into
\* SettlingAt's loop.
FilterRUnlock(p) ==
    /\ pc[p] = "FilterRUnlock"
    /\ mu' = [mu EXCEPT !.readers = @ \ {p}]
    /\ IF call[p].op = "SettlingAt"
       THEN Goto(p, "SettlingAtCount") /\ UNCHANGED call
       ELSE Goto(p, "idle") /\ call' = [call EXCEPT ![p] = NoCall]
    /\ NoIO
    /\ UNCHANGED <<sts, Labels>>

\* SettlingAt: the loop over Filter's slice, with no lock held.
SettlingAtCount(p) ==
    /\ pc[p] = "SettlingAtCount"
    /\ call' = [call EXCEPT ![p].n =
                    CountSettling(EmptyMap, Entries(call[p].r),
                                  call[p].k2, call[p].utime),
                            ![p].r = EmptyMap]
    /\ Goto(p, "SettlingAtReturn")
    /\ NoIO
    /\ UNCHANGED <<mu, sts, Labels>>

SettlingAtReturn(p) ==
    /\ pc[p] = "SettlingAtReturn"
    /\ Goto(p, "idle")
    /\ call' = [call EXCEPT ![p] = NoCall]
    /\ NoIO
    /\ UNCHANGED <<mu, sts, Labels>>

\* The steps of a goroutine that is inside a method and not waiting for
\* other writers.
Run(p) ==
    \/ LockWait(p) \/ Unlock(p)
    \/ AddLevels(p) \/ AddCheck(p) \/ AddInsert(p) \/ AddSet(p)
    \/ DelCheck(p) \/ DelLeaf(p) \/ DelFile(p) \/ DelPrune2(p)
    \/ DelPrune1(p) \/ DelDir(p)
    \/ FilterRLock(p) \/ FilterWake(p) \/ FilterRead(p) \/ FilterRUnlock(p)
    \/ SettlingAtCount(p) \/ SettlingAtReturn(p)

NextMu == \E p \in Procs : Invoke(p) \/ Lock(p) \/ Run(p)

\* Goroutines calling the methods of one store in any interleaving.
SpecMu == InitMu /\ [][NextMu]_mvars

\* The same under a fair lock and a scheduler that lets every goroutine
\* run: a goroutine inside a method takes its next step, and Lock gets a
\* goroutine past the other writers if it can again and again.
SpecFair ==
    /\ SpecMu
    /\ \A p \in Procs : WF_mvars(Run(p)) /\ SF_mvars(Lock(p))

(* ------------------------ vocabulary of the claims --------------------- *)

\* Token st is stored in index s, under the triple derived from it.
Holds(s, st) == Has3(s, st.k1, st.k2, st.k3) /\ s[st.k1][st.k2][st.k3] = st

\* The stored tokens matching (k1, k2), "" standing for every value.
Matching(s, k1, k2) ==
    {st \in Tokens : /\ Holds(s, st)
                     /\ (k1 = "" \/ st.k1 = k1)
                     /\ (k2 = "" \/ st.k2 = k2)}

\* The slice holding each token of S once.
Once(S) == [st \in S |-> 1]

\* The last step was the call op(a).
Called(o, a) == op' = o /\ arg' = a

\* The triple derived from st holds a token in s.
Occupied(s, st) == Has3(s, keyf(st)[1], keyf(st)[2], keyf(st)[3])

(* -------------------------------- C1 ---------------------------------- *)

\* Filter("","") returns the tokens added and not deleted since, each once.
FilterAllIsLive == t = TheT => Filter(sts, "", "") = Once(live)

\* C1, as stated: after any sequence of Add and Del calls Filter("","")
\* returns exactly the tokens added (on a then-unoccupied triple) and not
\* deleted since, each once, and an Add(st) on an unoccupied triple succeeds
\* and Filter(k1,k2) afterwards includes st.
C1_AddSucceedsAndFilterIsLive ==
    /\ []FilterAllIsLive
    /\ [][\A st \in Tokens :
            (Called("Add", <<st>>) /\ ~Occupied(sts, st)) =>
                /\ err' = NoError
                /\ st \in DOMAIN Filter(sts', st.k1, st.k2)]_vars

\* C1, amended: the same, except that an Add(st) on an unoccupied triple
\* succeeds exactly when its RecordStore write does and returns the write's
\* error otherwise; Filter(k1,k2) afterwards includes st in both cases.
C1_AddInsertsAndFilterIsLive ==
    /\ []FilterAllIsLive
    /\ [][\A st \in Tokens :
            (Called("Add", <<st>>) /\ ~Occupied(sts, st)) =>
                /\ io' = <<IO("Set", <<st.k1, st.k3>>, err' = NoError)>>
                /\ err' \in {NoError, IOError}
                /\ st \in DOMAIN Filter(sts', st.k1, st.k2)
                /\ Filter(sts', st.k1, st.k2)[st] = 1]_vars

\* Three tokens in two groups after a successful Add.
C1_Witness ==
    /\ op = "Add" /\ err = NoError
    /\ Cardinality(live) >= 3
    /\ DOMAIN sts = K1
    /\ arg[1] \in DOMAIN Filter(sts, arg[1].k1, arg[1].k2)

(* -------------------------------- C2 ---------------------------------- *)

\* C2: Add(st) on a triple that already holds a token returns
\* DuplicateSTError and changes nothing: the stored token is not replaced,
\* the index is unchanged, no RecordStore call is made, and the store holds
\* exactly one token at that triple.
C2_DuplicateAddChangesNothing ==
    [][\A st \in Tokens :
        (Called("Add", <<st>>) /\ Occupied(sts, st)) =>
            /\ err' = DuplicateSTError
            /\ sts' = sts
            /\ sts'[st.k1][st.k2][st.k3] = sts[st.k1][st.k2][st.k3]
            /\ io' = <<>>
            /\ m' = m
            /\ \E u \in Tokens :
                   /\ keyf(u) = keyf(st)
                   /\ u \in DOMAIN Filter(sts', st.k1, st.k2)
                   /\ Filter(sts', st.k1, st.k2)[u] = 1
                   /\ \A w \in DOMAIN Filter(sts', "", "") :
                          keyf(w) = keyf(st) => w = u]_vars

\* A rejected Add of a token other than the one its triple holds.
C2_Witness ==
    /\ op = "Add" /\ err = DuplicateSTError
    /\ ~Holds(sts, arg[1])
    /\ Occupied(sts, arg[1])

(* -------------------------------- C3 ---------------------------------- *)

\* C3: after Del(st), Filter(k1,k2) does not include st; a Del(st) whose
\* triple is absent at any level returns no error and leaves the index and
\* the RecordStore as they were.
C3_DelRemovesAndIsIdempotent ==
    [][\A st \in Tokens :
        Called("Del", <<st>>) =>
            /\ st \notin DOMAIN Filter(sts', st.k1, st.k2)
            /\ ~Occupied(sts', st)
            /\ ~Occupied(sts, st) =>
                   /\ err' = NoError
                   /\ sts' = sts
                   /\ m' = m
                   /\ io' = <<>>]_vars

\* A Del of a token that is not stored while the record at its path and
\* its second-level map exist.
C3_Witness ==
    /\ op = "Del" /\ err = NoError /\ io = <<>>
    /\ Has1(sts, arg[1].k1)
    /\ <<arg[1].k1, arg[1].k3>> \in DOMAIN m.files

(* -------------------------------- C4 ---------------------------------- *)

\* C4: Filter(k1,k2) returns exactly the stored tokens whose first key is
\* k1 (any, when k1 = "") and whose second key is k2 (any, when k2 = ""),
\* and changes neither the index nor the RecordStore.
C4_FilterReturnsMatching ==
    [][\A k1 \in K1 \cup {""}, k2 \in K2 \cup {""} :
        Called("Filter", <<k1, k2>>) =>
            /\ ret' = Once(Matching(sts, k1, k2))
            /\ sts' = sts
            /\ m' = m]_vars

\* Filter("", "x") over two groups, with a stored token it leaves out.
C4_Witness ==
    /\ op = "Filter" /\ arg = <<"", "x">>
    /\ \E u, w \in DOMAIN ret : u.k1 # w.k1
    /\ \E u \in Tokens : Holds(sts, u) /\ u \notin DOMAIN ret

(* -------------------------------- C5 ---------------------------------- *)

\* C5: a New over the RecordStore contents left by a sequence of successful
\* Add calls (hist = "adds") yields an index whose Filter results equal
\* those of the store before it, for every (k1, k2).
C5_BootstrapKeepsFilterResults ==
    [][(op' = "New" /\ err' = NoError /\ t = TheT /\ hist = "adds") =>
        \A k1 \in K1 \cup {""}, k2 \in K2 \cup {""} :
            Filter(sts', k1, k2) = Filter(sts, k1, k2)]_vars

(* -------------------------------- C6 ---------------------------------- *)

\* The RecordStore mirrors the index: the persisted paths are the (k1, k3)
\* of the stored tokens, each stored token's record is that token, and the
\* groups on disk are the first-level keys of the index.
Mirror(s, mm) ==
    /\ DOMAIN mm.files = {<<st.k1, st.k3>> : st \in Matching(s, "", "")}
    /\ \A st \in Matching(s, "", "") :
           /\ <<st.k1, st.k3>> \in DOMAIN mm.files
           /\ mm.files[<<st.k1, st.k3>>] = st
    /\ mm.dirs = DOMAIN s

\* C6: while every RecordStore call has succeeded, after each completed
\* Add or Del the RecordStore mirrors the index (of a store opened on an
\* empty directory: hist is "adds" or "clean").
C6_RecordStoreMirrorsIndex ==
    (op \in {"Add", "Del"} /\ hist \in {"adds", "clean"}) => Mirror(sts, m)

(* -------------------------------- C7 ---------------------------------- *)

\* C7: whenever a Del that returns no error removes the last token stored
\* under k1, the group k1 is gone from the RecordStore and k1 is no longer
\* a key of the index (stated of the stores opened on an empty directory).
C7_LastDelRemovesGroup ==
    [][\A st \in Tokens :
        (/\ Called("Del", <<st>>)
         /\ hist # "other"
         /\ err' = NoError
         /\ Matching(sts, st.k1, "") # {}
         /\ Matching(sts', st.k1, "") = {}) =>
            /\ st.k1 \notin m'.dirs
            /\ \A p \in DOMAIN m'.files : p[1] # st.k1
            /\ ~Has1(sts', st.k1)]_vars

(* -------------------------------- C8 ---------------------------------- *)

\* C8: when the RecordStore write of an Add(st) on an unoccupied triple
\* fails, the write's error is returned and the insertion stays: st is in
\* the index and in Filter's results, and the RecordStore is as it was.
C8_FailedWriteKeepsInsertion ==
    [][\A st \in Tokens :
        (/\ Called("Add", <<st>>)
         /\ ~Occupied(sts, st)
         /\ io' = <<IO("Set", <<st.k1, st.k3>>, FALSE)>>) =>
            /\ err' = IOError
            /\ Holds(sts', st)
            /\ st \in DOMAIN Filter(sts', st.k1, st.k2)
            /\ st \in DOMAIN Filter(sts', "", "")
            /\ m' = m]_vars

\* An Add whose write failed: the token is returned by Filter and no record
\* exists at its path.
C8_Witness ==
    /\ op = "Add" /\ err = IOError
    /\ arg[1] \in DOMAIN Filter(sts, arg[1].k1, arg[1].k2)
    /\ <<arg[1].k1, arg[1].k3>> \notin DOMAIN m.files

(* -------------------------------- C9 ---------------------------------- *)

\* C9: SettlingAt(rpk, utime) returns a map whose only possible key is rpk,
\* never counted zero; when no matched token is settling at utime the map
\* is empty.
C9_SettlingAtAtMostOneEntry ==
    [][\A rpk \in K2 \cup {""}, utime \in 0..MaxTime :
        Called("SettlingAt", <<rpk, utime>>) =>
            /\ DOMAIN ret' \subseteq {rpk}
            /\ \A k \in DOMAIN ret' : ret'[k] > 0
            /\ (\A st \in Matching(sts, "", rpk) : ~IsSettlingAt(st, utime))
                   => ret' = EmptyMap]_vars

\* A SettlingAt whose key matches stored tokens, none of them settling.
C9_Witness ==
    /\ op = "SettlingAt" /\ ret = EmptyMap
    /\ arg[1] # ""
    /\ Matching(sts, "", arg[1]) # {}

(* -------------------------------- C10 --------------------------------- *)

\* C10: a New during which a record cannot be read, or whose Add returns an
\* error, yields no store holding part of the records.
C10_FailedNewYieldsNoStore ==
    (op = "New" /\ err # NoError) => (t = NilT \/ Matching(sts, "", "") = {})

(* -------------------------------- C12 --------------------------------- *)

\* C12: between operations the index holds no empty inner mapping: every k1
\* entry has a k2 entry and every k2 entry has a token (stated of the stores
\* opened on an empty directory).
C12_NoEmptyInnerMapping ==
    (t = TheT /\ hist # "other") =>
        \A k1 \in DOMAIN sts :
            /\ DOMAIN sts[k1] # {}
            /\ \A k2 \in DOMAIN sts[k1] : DOMAIN sts[k1][k2] # {}

(* -------------------------------- C13 --------------------------------- *)

\* C13: when Del(st) finds a token at st's triple and the deletion of its
\* record fails, the error is returned, the leaf is gone from the index and
\* from Filter's results, neither the k2 nor the k1 level is pruned, and
\* nothing on disk, the group included, is deleted.
C13_FailedDelRemovesLeafOnly ==
    [][\A st \in Tokens :
        (/\ Called("Del", <<st>>)
         /\ Occupied(sts, st)
         /\ io' # <<>>
         /\ ~io'[1].ok) =>
            /\ err' = IOError
            /\ ~Occupied(sts', st)
            /\ \A u \in DOMAIN Filter(sts', st.k1, st.k2) : keyf(u) # keyf(st)
            /\ sts' = Put(sts, st.k1, Put(sts[st.k1], st.k2,
                                          Remove(sts[st.k1][st.k2], st.k3)))
            /\ Has2(sts', st.k1, st.k2)
            /\ io' = <<IO("Del", <<st.k1, st.k3>>, FALSE)>>
            /\ m' = m]_vars

\* A failed Del that left the token's second-level map empty.
C13_Witness ==
    /\ op = "Del" /\ err = IOError
    /\ Has2(sts, arg[1].k1, arg[1].k2)
    /\ DOMAIN sts[arg[1].k1][arg[1].k2] = {}
    /\ arg[1].k1 \in m.dirs

(* -------------------------------- C14 --------------------------------- *)

\* The count a SettlingAt map reports under k.
CountAt(r, k) == IF k \in DOMAIN r THEN r[k] ELSE 0

\* The stored tokens with second-level key k2 that are settling at utime.
SettlingWith(s, k2, utime) ==
    {st \in Tokens : Holds(s, st) /\ st.k2 = k2 /\ IsSettlingAt(st, utime)}

\* C14, as stated: for every rpk and utime the count SettlingAt reports
\* under rpk is the number of stored tokens whose second-level key is rpk
\* and that are settling at utime.
C14_CountsTokensOfKey ==
    [][\A rpk \in K2 \cup {""}, utime \in 0..MaxTime :
        Called("SettlingAt", <<rpk, utime>>) =>
            CountAt(ret', rpk) = Cardinality(SettlingWith(sts, rpk, utime))]_vars

\* C14, amended: that holds for every rpk but the empty string, for which
\* Filter takes the key as "every k2" and the count reported under "" is
\* the number of all stored tokens settling at utime.
C14_CountsTokensOfKeyOrAll ==
    [][\A rpk \in K2 \cup {""}, utime \in 0..MaxTime :
        Called("SettlingAt", <<rpk, utime>>) =>
            CountAt(ret', rpk) =
                IF rpk # ""
                THEN Cardinality(SettlingWith(sts, rpk, utime))
                ELSE Cardinality({st \in Tokens :
                                    Holds(sts, st) /\ IsSettlingAt(st, utime)})]_vars

\* A count of two under "x" while a settling token of key "y" is stored.
C14_Witness ==
    /\ op = "SettlingAt" /\ arg[1] = "x"
    /\ CountAt(ret, "x") = 2
    /\ SettlingWith(sts, "y", arg[2]) # {}

(* -------------------------------- C18 --------------------------------- *)

\* C18: whenever Del(st) returns no error, the RecordStore holds no record
\* at st's path; stated of the case the claim names, the Del(st) that
\* follows a Del(st) which returned a RecordStore error, in a store opened
\* on an empty directory.
C18_DelSuccessMeansNoRecord ==
    [][\A st \in Tokens :
        (/\ op = "Del" /\ arg = <<st>> /\ err = IOError
         /\ hist # "other"
         /\ Called("Del", <<st>>)
         /\ err' = NoError) =>
            <<st.k1, st.k3>> \notin DOMAIN m'.files]_vars

(* -------------------------------- C19 --------------------------------- *)

\* Token st has its record persisted.
Persisted(mm, st) ==
    <<st.k1, st.k3>> \in DOMAIN mm.files /\ mm.files[<<st.k1, st.k3>>] = st

\* C19: after a Del, every token still in the index that had its record
\* persisted before the call still has it (stated of the stores opened on
\* an empty directory, while no RecordStore call has failed).
C19_DelKeepsOtherRecords ==
    [][(op' = "Del" /\ hist' \in {"adds", "clean"}) =>
        \A u \in Tokens :
            (Holds(sts', u) /\ Persisted(m, u)) => Persisted(m', u)]_vars

(* -------------------------------- C20 --------------------------------- *)

\* C20: when Add(st) returned a RecordStore error, a following Add(st)
\* during which no RecordStore call fails writes st's record at (k1, k3).
C20_RetriedAddPersists ==
    [][\A st \in Tokens :
        (/\ op = "Add" /\ arg = <<st>> /\ err = IOError
         /\ Called("Add", <<st>>)
         /\ \A i \in DOMAIN io' : io'[i].ok) =>
            Persisted(m', st)]_vars

(* ------------------------- concurrent callers -------------------------- *)

\* Goroutine p is between Lock's return and Unlock; between RLock's return
\* and RUnlock; waiting inside Lock or RLock.
Writing(p) == pc[p] \in WriteSection
Reading(p) == pc[p] \in ReadSection
Waiting(p) == pc[p] \in {"AddLock", "AddWait", "DelLock", "DelWait", "FilterBlocked"}

\* Goroutine p took the step from position a to position b.
Stepped(p, a, b) == pc[p] = a /\ pc'[p] = b

(* -------------------------------- C11 --------------------------------- *)

\* While a goroutine is writing, no other goroutine is writing or reading.
WritersExclusive ==
    \A p \in Procs : \A q \in Procs \ {p} : Writing(p) => ~Writing(q) /\ ~Reading(q)

\* The index a Filter reads is one no Add or Del is in the middle of
\* changing, and r is Filter's result on it.
FilterReadsSettledIndex ==
    \A p \in Procs :
        Stepped(p, "FilterRead", "FilterRUnlock") =>
            /\ \A q \in Procs : ~Writing(q)
            /\ call'[p].r = Filter(sts, call[p].k1, call[p].k2)

\* C11. Under every interleaving, while an Add or Del is inside its
\* critical section no other Add, Del, Filter or SettlingAt read is inside
\* one, so a Filter never reads the index in the middle of a mutation.
C11_WritersExcludeAll == []WritersExclusive /\ [][FilterReadsSettledIndex]_mvars

\* A goroutine inside Add's or Del's section after it changed the index,
\* with another goroutine kept waiting in RLock.
C11_Witness ==
    \E p \in Procs : \E q \in Procs \ {p} :
        /\ pc[p] \in {"AddSet", "DelFile"}
        /\ pc[q] = "FilterBlocked"

\* Two goroutines inside Filter's read section together: reachable, which
\* is the "several reads may be inside together" of C11.
ReadersTogether == \E p \in Procs : \E q \in Procs \ {p} : Reading(p) /\ Reading(q)

(* -------------------------------- C15 --------------------------------- *)

\* An Add that found its leaf empty and has not stored its token yet still
\* finds it empty.
CheckStillValid ==
    \A p \in Procs : pc[p] = "AddInsert" => ~Occupied(sts, call[p].st)

\* An Add's check sends it to the insertion when the leaf is empty and ends
\* it with DuplicateSTError, the index as it was, when the leaf is occupied;
\* the insertion stores the token at a leaf that was empty.
CheckThenInsert ==
    \A p \in Procs :
        /\ Stepped(p, "AddCheck", "AddInsert") => ~Occupied(sts, call[p].st)
        /\ Stepped(p, "AddCheck", "AddUnlock") =>
               /\ Occupied(sts, call[p].st)
               /\ call'[p].err = DuplicateSTError
               /\ sts' = sts
        /\ (pc[p] = "AddCheck" /\ pc'[p] # pc[p]) =>
               pc'[p] \in {"AddInsert", "AddUnlock"}
        /\ Stepped(p, "AddInsert", "AddSet") =>
               /\ ~Occupied(sts, call[p].st)
               /\ Holds(sts', call[p].st)

\* C15. When goroutines Add tokens of one triple at the same time, the
\* check of the leaf and the insertion are atomic: an Add inserts only at a
\* leaf that is empty when it inserts, and every Add that finds the leaf
\* occupied returns DuplicateSTError.
C15_CheckAndInsertAtomic == []CheckStillValid /\ [][CheckThenInsert]_mvars

\* Two Adds of one triple under way at once: one has inserted st1 and is
\* still inside, the other waits in Lock with st5.
C15_Witness ==
    \E p \in Procs : \E q \in Procs \ {p} :
        /\ pc[p] = "AddSet" /\ call[p].st = st1 /\ Holds(sts, st1)
        /\ pc[q] \in {"AddLock", "AddWait"} /\ call[q].op = "Add"
        /\ call[q].st = st5

(* -------------------------------- C16 --------------------------------- *)

\* The positions of Add and Del between a change of the index and the
\* RecordStore call that belongs to it.
BeforeIO == {"AddSet", "DelFile", "DelDir"}

\* Goroutine p holds the write lock.
HoldsLock(p) == mu.w = p /\ mu.readers = {} /\ Writing(p)

\* A goroutine that changed the index and has its RecordStore call still
\* to make holds the write lock.
LockedBeforeIO == \A p \in Procs : pc[p] \in BeforeIO => HoldsLock(p)

\* A RecordStore call is a step of a goroutine that holds the write lock
\* before and after it; and while a goroutine is between its change of the
\* index and its RecordStore call, no other goroutine reads or changes the
\* index.
IOUnderLock ==
    /\ io' # <<>> =>
           \E p \in Procs :
               /\ pc[p] \in BeforeIO /\ pc'[p] # pc[p]
               /\ HoldsLock(p)
               /\ mu'.w = p /\ Writing(p)'
    /\ \A p \in Procs :
           (pc[p] \in BeforeIO /\ pc'[p] = pc[p]) =>
               /\ sts' = sts
               /\ m' = m
               /\ \A q \in Procs : ~Stepped(q, "FilterRead", "FilterRUnlock")

\* C16. Every RecordStore write or delete of Add and Del is made with the
\* write lock held, and no Filter and no other mutation runs between a
\* mutation's change of the index and its RecordStore call.
C16_RecordStoreCallsUnderLock == []LockedBeforeIO /\ [][IOUnderLock]_mvars

\* A RecordStore call was just made while another goroutine waited for
\* the lock.
C16_Witness ==
    /\ io # <<>>
    /\ \E p \in Procs : \E q \in Procs \ {p} : Writing(p) /\ Waiting(q)

(* -------------------------------- C17 --------------------------------- *)

\* A goroutine that is about to call Lock or RLock, or is running no method
\* or SettlingAt's loop, holds no lock; the lock is held only by goroutines
\* inside a method.
NoLockOutside ==
    \A p \in Procs :
        /\ pc[p] \in {"idle", "AddLock", "DelLock", "FilterRLock",
                      "SettlingAtCount", "SettlingAtReturn"} =>
               mu.w # p /\ p \notin mu.readers /\ p \notin mu.blocked
        /\ mu.w \in Procs \cup {0}

\* Some goroutine inside a method can take a step.
NoDeadlock ==
    (\E p \in Procs : pc[p] # "idle") =>
        \E p \in Procs : ENABLED (Lock(p) \/ Run(p))

\* C17. With a fair lock and RecordStore calls that return, every Add, Del,
\* Filter and SettlingAt that was called returns, no reachable state is a
\* deadlock, no method calls Lock or RLock while it holds the lock, and
\* every return, with an error or without, leaves the lock released.
C17_EveryCallReturns ==
    /\ []NoLockOutside
    /\ []NoDeadlock
    /\ \A p \in Procs : (pc[p] # "idle") ~> (pc[p] = "idle")

\* A Del about to return a RecordStore error while another goroutine waits
\* for the lock.
C17_Witness ==
    \E p \in Procs : \E q \in Procs \ {p} :
        /\ pc[p] = "DelUnlock" /\ call[p].err = IOError
        /\ Waiting(q)

====
